---------------------------- MODULE Spec2Model ----------------------------
(***************************************************************************)
(* Frame transport subsystem of ESP32-CAM-TCP-server: the rate gate, the   *)
(* rolling rate measurement, and the client (push) and server (pull)       *)
(* sessions of RelayClient, TcpServer, CameraRelayClient, CameraTcpServer. *)
(*                                                                         *)
(* One instance is modelled at a time; `variant` says of which class.      *)
(* RelayClient names the gate fields _minSendInterval / _lastSendTime and  *)
(* the byte counter _totalBytesSent; the other three classes name them     *)
(* _frameInterval / _lastFrameTime / _bytesSent, the names used here.      *)
(***************************************************************************)
EXTENDS Integers, Sequences, FiniteSets, TLC

VARIABLES
    variant,                 \* class of the instance
    now,                     \* millis(): the millisecond clock
    ticks,                   \* clock advances so far (bounds the exploration)
    _targetFPS,              \* configured target rate (whole frames per second)
    _frameInterval,          \* minimum send interval in ms
    _lastFrameTime,          \* timestamp of the last recorded send
    polled,                  \* last canSend() call: its inputs and return value
    denied,                  \* a canSend() call has returned false
    _fpsTimestamps,          \* ring of the last RingSize send timestamps
    _fpsIndex,               \* next ring slot to write
    _startTime,              \* RelayClient: millis() at begin()
    sentTimes,               \* timestamps of the sends recorded so far, in order
    _frameCount,             \* frames sent
    _bytesSent,              \* bytes sent
    _clientCount,            \* server classes: clients accepted
    sock,                    \* _client: "closed", "open" or "dead" (peer gone)
    pending,                 \* server classes: a connection waits on the listener
    listening,               \* server classes: _server.begin() has been called
    _isConnected,            \* RelayClient, CameraRelayClient: session flag
    _hasClient,              \* CameraTcpServer: session flag
    _cameraInitialized,      \* camera classes: begin() succeeded
    _lastConnectionAttempt,  \* client classes: time of the last connect()
    _retryDelay,             \* client classes: reconnect backoff in ms
    lastCall,                \* the last send: length, bytes written, result
    sinceSent,               \* ms since the last successful send (-1: none yet)
    failedSince,             \* a send failed and no run() has connected since
    lastRun,                 \* client classes: the last run(): did it attempt?
    sinceAttempt,            \* ms since the last connection attempt (-1: none)
    sinceFailure,            \* ms since a failure ended the session (-1: none)
    _connected,              \* UDPNetworkClient: connected flag
    _frameId,                \* UDPNetworkClient: frame counter
    wire,                    \* UDPNetworkClient: datagrams the last call sent
    udpCall,                 \* UDPNetworkClient: the last call and its result
    _password,               \* UDPNetworkClient: the 8 handshake password bytes
    greeted,                 \* a handshake was transmitted since connect()
    udpOps                   \* UDPNetworkClient calls so far (bounds the run)

gateVars == <<_targetFPS, _frameInterval, _lastFrameTime>>
pollVars == <<polled, denied>>
fpsVars == <<_fpsTimestamps, _fpsIndex, _startTime, sentTimes>>
countVars == <<_frameCount, _bytesSent, _clientCount>>
connVars == <<sock, pending, listening, _isConnected, _hasClient,
              _cameraInitialized, _lastConnectionAttempt, _retryDelay>>
callVars == <<lastCall, sinceSent, failedSince>>
runVars == <<lastRun, sinceAttempt, sinceFailure>>
udpVars == <<_connected, _frameId, wire, udpCall, _password, greeted, udpOps>>
vars == <<variant, now, ticks, gateVars, pollVars, fpsVars, countVars,
          connVars, callVars, runVars, udpVars>>

Variants == {"RelayClient", "TcpServer", "CameraRelayClient", "CameraTcpServer"}

\* Width of unsigned long, the type of millis() and of every timestamp.  It is
\* 32 on the ESP32; TLC's integers are 32-bit signed and cannot hold 2^32, so
\* the clock is modelled ClockBits wide.  Every interval and delay of the
\* program is far below 2^ClockBits, and nothing below depends on the width
\* beyond "timestamps wrap at ClockMod".
ClockBits == 29
ClockMod == 2 ^ ClockBits

\* _retryDelay as the constructors set it
DefaultRetryDelay == 5000

\* a - b in unsigned long arithmetic
Sub32(a, b) == (a - b + ClockMod) % ClockMod

NoPoll == [ret |-> "none"]
NoCall == [ret |-> "none"]
NoRun == [attempted |-> "none"]
NoUdpCall == [op |-> "none"]

\* size of the _fpsTimestamps ring
RingSize == 10
EmptyRing == [i \in 0 .. (RingSize - 1) |-> 0]

\* the fields a specification does not exercise, as the constructors leave them
FreshFps ==
    /\ _fpsTimestamps = EmptyRing
    /\ _fpsIndex = 0
    /\ _startTime = 0
    /\ sentTimes = << >>
FreshCounts ==
    /\ _frameCount = 0
    /\ _bytesSent = 0
    /\ _clientCount = 0
FreshConn ==
    /\ sock = "closed"
    /\ pending = FALSE
    /\ listening = FALSE
    /\ _isConnected = FALSE
    /\ _hasClient = FALSE
    /\ _cameraInitialized = FALSE
    /\ _lastConnectionAttempt = 0
FreshCalls ==
    /\ lastCall = NoCall
    /\ sinceSent = -1
    /\ failedSince = FALSE
FreshRuns ==
    /\ lastRun = NoRun
    /\ sinceAttempt = -1
    /\ sinceFailure = -1
FreshUdp ==
    /\ _connected = FALSE
    /\ _frameId = 0
    /\ wire = <<>>
    /\ udpCall = NoUdpCall
    /\ _password = <<"E", "S", "P", "3", "2", "C", "A", "M">>
    /\ greeted = FALSE
    /\ udpOps = 0

----------------------------------------------------------------------------
(* Rate gate: the interval                                                 *)

MaxRate == 30
\* rates a caller configures: negative, zero (documented "no limit" in
\* RelayClient), and every whole rate up to MaxRate
GateRates == (-1) .. MaxRate

\* (unsigned long)(1000.0 / fps) for fps > 0: the conversion truncates
TruncatedInterval(fps) == 1000 \div fps

\* (unsigned long)(1000.0 / fps) where the quotient is +infinity (fps = 0) or
\* negative (fps < 0): the conversion is undefined; a build saturates, wraps
\* or yields 0
UndefinedInterval(fps) ==
    IF fps = 0 THEN {0, ClockMod - 1}
    ELSE {0, (ClockMod - (1000 \div (-fps))) % ClockMod, ClockMod - 1}

updateFPSInterval_Rounded(fps) ==
    IF fps > 0 THEN {(2000 + fps) \div (2 * fps)} ELSE {0}

\* RelayClient::updateFPSInterval: the guarded computation
updateFPSInterval(fps) ==
    IF fps > 0 THEN {TruncatedInterval(fps)} ELSE {0}

\* TcpServer / CameraRelayClient / CameraTcpServer constructor and
\* setTargetFPS: the unguarded computation
FrameInterval(fps) ==
    IF fps > 0 THEN {TruncatedInterval(fps)} ELSE UndefinedInterval(fps)

\* the intervals the instance's class can compute for fps
ConfiguredInterval(v, fps) ==
    IF v = "RelayClient" THEN updateFPSInterval(fps) ELSE FrameInterval(fps)

----------------------------------------------------------------------------
(* Rate gate: canSend()                                                    *)

RelayCanSend_Strict(t, last, interval) ==
    IF interval = 0 THEN TRUE ELSE Sub32(t, last) > interval

RelayCanSend_NoWrap(t, last, interval) ==
    IF interval = 0 THEN TRUE ELSE t >= last /\ t - last >= interval

\* RelayClient::canSend
RelayCanSend(t, last, interval) ==
    IF interval = 0 THEN TRUE ELSE Sub32(t, last) >= interval

TcpServerCanSend_NoOverflowCheck(t, last, interval) ==
    Sub32(t, last) >= interval

\* TcpServer::canSend, the value returned
TcpServerCanSend(t, last, interval) ==
    IF t < last THEN TRUE ELSE (t - last) >= interval

\* TcpServer::canSend, the value it leaves in _lastFrameTime
TcpServerCanSendLast(t, last) ==
    IF t < last THEN t ELSE last

CameraRelayCanSend_Always(t, last, interval) == TRUE

\* CameraRelayClient::canSend
CameraRelayCanSend(t, last, interval) ==
    IF t < last THEN TRUE ELSE (t - last) >= interval

CameraServerCanSend_Strict(t, last, interval) ==
    IF t < last THEN TRUE ELSE (t - last) > interval

\* CameraTcpServer::canSend
CameraServerCanSend(t, last, interval) ==
    IF t < last THEN TRUE ELSE (t - last) >= interval

\* canSend() of the instance's class
CanSend(v, t, last, interval) ==
    CASE v = "RelayClient"       -> RelayCanSend(t, last, interval)
      [] v = "TcpServer"         -> TcpServerCanSend(t, last, interval)
      [] v = "CameraRelayClient" -> CameraRelayCanSend(t, last, interval)
      [] OTHER                   -> CameraServerCanSend(t, last, interval)

\* _lastFrameTime after canSend(): only TcpServer::canSend writes it
CanSendLast(v, t, last) ==
    IF v = "TcpServer" THEN TcpServerCanSendLast(t, last) ELSE last

----------------------------------------------------------------------------
(* The gate as a function of its inputs: configure, read the clock, record *)
(* a send, poll.                                                           *)

\* clock values around the intervals of the rates and around the wrap
ClockSamples == {0, 32, 33, 65, 66, 67, 99, 100, ClockMod - 10, ClockMod - 1}

GateInit ==
    /\ variant \in Variants
    /\ _targetFPS \in GateRates
    /\ _frameInterval \in ConfiguredInterval(variant, _targetFPS)
    /\ _lastFrameTime = 0
    /\ now \in ClockSamples
    /\ ticks = 0
    /\ polled = NoPoll
    /\ denied = FALSE
    /\ FreshFps /\ FreshCounts /\ FreshConn /\ FreshCalls
    /\ FreshRuns /\ FreshUdp
    /\ _retryDelay = DefaultRetryDelay

\* setTargetFPS(fps)
GateSetTargetFPS(fps) ==
    /\ _targetFPS' = fps
    /\ _frameInterval' \in ConfiguredInterval(variant, fps)
    /\ polled' = NoPoll
    /\ UNCHANGED <<variant, runVars, udpVars, now, ticks, _lastFrameTime, denied, fpsVars, countVars, connVars, callVars>>

\* the clock reads t at the next call
GateClock(t) ==
    /\ now' = t
    /\ polled' = NoPoll
    /\ UNCHANGED <<variant, runVars, udpVars, ticks, gateVars, denied, fpsVars, countVars, connVars, callVars>>

\* a successful send records its time: _lastFrameTime = millis()
GateMarkSent ==
    /\ _lastFrameTime' = now
    /\ polled' = NoPoll
    /\ denied' = FALSE
    /\ UNCHANGED <<variant, runVars, udpVars, now, ticks, _targetFPS, _frameInterval, fpsVars, countVars, connVars, callVars>>

\* canSend()
GateCanSend ==
    /\ polled' = [ret |-> CanSend(variant, now, _lastFrameTime, _frameInterval),
                  at |-> now, last |-> _lastFrameTime,
                  interval |-> _frameInterval, fps |-> _targetFPS]
    /\ _lastFrameTime' = CanSendLast(variant, now, _lastFrameTime)
    /\ denied' = (denied \/ ~CanSend(variant, now, _lastFrameTime, _frameInterval))
    /\ UNCHANGED <<variant, runVars, udpVars, now, ticks, _targetFPS, _frameInterval, fpsVars, countVars, connVars, callVars>>

GateNext ==
    \/ \E fps \in GateRates : GateSetTargetFPS(fps)
    \/ \E t \in ClockSamples : GateClock(t)
    \/ GateMarkSent
    \/ GateCanSend

SpecGate == GateInit /\ [][GateNext]_vars

\* C2: with a positive interval I and no clock wrap between the recorded send
\* time t and the clock value, canSend() returns false when now - t < I and
\* true when now - t >= I.
C2_GateBoundary ==
    (polled # NoPoll /\ polled.interval > 0 /\ polled.at >= polled.last)
        => (polled.ret <=> (polled.at - polled.last >= polled.interval))

\* canSend() has just denied a send one millisecond before the interval ends
C2_Witness ==
    /\ polled # NoPoll
    /\ polled.interval > 0
    /\ polled.at - polled.last = polled.interval - 1
    /\ polled.ret = FALSE

\* round(1000 / fps) for fps > 0, halves rounded up
RoundedInterval(fps) == (2000 + fps) \div (2 * fps)

\* C3 as stated: a positive rate r sets the interval to round(1000/r)
\* (15 gives 67, 30 gives 33), a non-positive rate gives 0.
C3_RoundedInterval ==
    _frameInterval = (IF _targetFPS > 0 THEN RoundedInterval(_targetFPS) ELSE 0)

\* C3 as amended: a positive rate r sets the interval to 1000/r truncated
\* towards zero, the largest whole number i with i * r <= 1000 (15 gives 66,
\* 30 gives 33); in RelayClient a non-positive rate gives 0.
C3_TruncatedInterval ==
    /\ _targetFPS > 0 =>
          /\ _frameInterval * _targetFPS <= 1000
          /\ 1000 < (_frameInterval + 1) * _targetFPS
    /\ (_targetFPS = 15 => _frameInterval = 66)
    /\ (_targetFPS = 30 => _frameInterval = 33)
    /\ (variant = "RelayClient" /\ _targetFPS <= 0) => _frameInterval = 0

\* rate 15 has been configured and the interval is 66 ms
C3_Witness == _targetFPS = 15 /\ _frameInterval = 66

\* C4: a non-positive rate means unlimited in every class: the interval is 0
\* and canSend() returns true whatever the clock and the last send time.
C4_ZeroRateUnlimited ==
    _targetFPS <= 0 =>
        /\ _frameInterval = 0
        /\ (polled # NoPoll => polled.ret = TRUE)

\* C5 as stated: with a positive interval, canSend() returns true whenever the
\* clock value is numerically below the recorded send time.
C5_WrapPermits ==
    (polled # NoPoll /\ polled.interval > 0 /\ polled.at < polled.last)
        => polled.ret = TRUE

\* C5 as amended: when the clock value is numerically below the recorded send
\* time, canSend() of TcpServer, CameraRelayClient and CameraTcpServer returns
\* true; RelayClient::canSend (positive interval) returns true only if the time
\* elapsed across the wrap, now + 2^w - last, has reached the interval.
C5_WrapByClass ==
    (polled # NoPoll /\ polled.at < polled.last) =>
        /\ variant # "RelayClient" => polled.ret = TRUE
        /\ (variant = "RelayClient" /\ polled.interval > 0) =>
              (polled.ret <=> (polled.at + (ClockMod - polled.last) >= polled.interval))

\* canSend() of a class with the overflow check was called after a wrap, less
\* than an interval after the last send, and returned true
C5_Witness ==
    /\ polled # NoPoll
    /\ variant = "TcpServer"
    /\ polled.at < polled.last
    /\ polled.interval > 0
    /\ polled.at + (ClockMod - polled.last) < polled.interval
    /\ polled.ret = TRUE

----------------------------------------------------------------------------
(* The gate while the clock runs: the millisecond clock advances, wrapping *)
(* at ClockMod, and the caller's loop keeps polling canSend().             *)

MaxTicks == 12
\* rates whose intervals (10, 4, 2 and 1 ms) end within MaxTicks
LiveRates == {100, 250, 500, 1000}
\* send times and clock values on both sides of the wrap
LiveLast == {0, ClockMod - 2}
LiveNow == {0, 3, ClockMod - 2}

LiveInit ==
    /\ variant \in Variants
    /\ _targetFPS \in LiveRates
    /\ _frameInterval \in ConfiguredInterval(variant, _targetFPS)
    /\ _lastFrameTime \in LiveLast
    /\ now \in LiveNow
    /\ ticks = 0
    /\ polled = NoPoll
    /\ denied = FALSE
    /\ FreshFps /\ FreshCounts /\ FreshConn /\ FreshCalls
    /\ FreshRuns /\ FreshUdp
    /\ _retryDelay = DefaultRetryDelay

\* one millisecond passes
LiveTick ==
    /\ ticks < MaxTicks
    /\ now' = (now + 1) % ClockMod
    /\ ticks' = ticks + 1
    /\ UNCHANGED <<variant, runVars, udpVars, gateVars, pollVars, fpsVars, countVars, connVars, callVars>>

LiveNext ==
    \/ LiveTick
    \/ GateCanSend

\* the clock runs by itself and loop() calls canSend() on every iteration
SpecGateLive ==
    LiveInit /\ [][LiveNext]_vars /\ WF_vars(LiveTick) /\ WF_vars(GateCanSend)

\* C6: for any recorded send time and positive interval, as the clock keeps
\* advancing (wrapping) and canSend() keeps being polled, canSend() eventually
\* returns true.
C6_EventuallyPermits == <>(polled # NoPoll /\ polled.ret = TRUE)

\* canSend() returned false, the clock advanced and wrapped, and canSend()
\* returned true
C6_Witness ==
    /\ polled # NoPoll
    /\ polled.ret = TRUE
    /\ denied
    /\ polled.at < polled.last

----------------------------------------------------------------------------
(* The measured rate.  getActualFPS() returns a float; it is modelled as   *)
(* the exact quotient num / den.                                           *)

ZeroFPS == [num |-> 0, den |-> 1]

\* TcpServer::updateFPS, the ring write (identical in CameraRelayClient and
\* CameraTcpServer)
updateFPS(ts, idx, t) == [ts EXCEPT ![idx] = t]

\* TcpServer::updateFPS, the index step
updateFPSIndex(idx) == (idx + 1) % RingSize

getActualFPS_NoSampleCheck(ts, idx) ==
    LET elapsed == Sub32(ts[idx], ts[(idx + 1) % RingSize]) IN
    IF elapsed = 0 THEN ZeroFPS ELSE [num |-> 9000, den |-> elapsed]

\* TcpServer::getActualFPS
getActualFPS(ts, idx) ==
    IF ts[RingSize - 1] = 0 THEN ZeroFPS
    ELSE LET elapsed == Sub32(ts[idx], ts[(idx + 1) % RingSize]) IN
         IF elapsed = 0 THEN ZeroFPS ELSE [num |-> 9000, den |-> elapsed]

\* CameraRelayClient::getActualFPS
CameraRelayGetActualFPS(ts, idx) ==
    IF ts[RingSize - 1] = 0 THEN ZeroFPS
    ELSE LET elapsed == Sub32(ts[idx], ts[(idx + 1) % RingSize]) IN
         IF elapsed = 0 THEN ZeroFPS ELSE [num |-> 9000, den |-> elapsed]

\* CameraTcpServer::getActualFPS
CameraServerGetActualFPS(ts, idx) ==
    IF ts[RingSize - 1] = 0 THEN ZeroFPS
    ELSE LET elapsed == Sub32(ts[idx], ts[(idx + 1) % RingSize]) IN
         IF elapsed = 0 THEN ZeroFPS ELSE [num |-> 9000, den |-> elapsed]

\* RelayClient::getActualFPS: the average since begin()
RelayGetActualFPS(frames, t, start) ==
    LET elapsed == Sub32(t, start) IN
    IF elapsed = 0 THEN ZeroFPS ELSE [num |-> frames * 1000, den |-> elapsed]

\* getActualFPS() of the instance, called now
ActualFPS ==
    CASE variant = "RelayClient" ->
            RelayGetActualFPS(_frameCount, now, _startTime)
      [] variant = "TcpServer" ->
            getActualFPS(_fpsTimestamps, _fpsIndex)
      [] variant = "CameraRelayClient" ->
            CameraRelayGetActualFPS(_fpsTimestamps, _fpsIndex)
      [] OTHER ->
            CameraServerGetActualFPS(_fpsTimestamps, _fpsIndex)

\* the statistics block of a successful send of len bytes at time t:
\* _bytesSent += written; _frameCount++; _lastFrameTime = millis(); updateFPS()
\* (RelayClient keeps no ring)
RecordSend(len, t) ==
    /\ _bytesSent' = _bytesSent + len
    /\ _frameCount' = _frameCount + 1
    /\ _lastFrameTime' = t
    /\ IF variant = "RelayClient"
       THEN UNCHANGED <<_fpsTimestamps, _fpsIndex>>
       ELSE /\ _fpsTimestamps' = updateFPS(_fpsTimestamps, _fpsIndex, t)
            /\ _fpsIndex' = updateFPSIndex(_fpsIndex)
    /\ sentTimes' = Append(sentTimes, t)

MaxSends == 12
\* ms between two sends
SendGaps == {50, 100}
FpsStarts == {0, 7}

FpsInit ==
    /\ variant \in Variants
    /\ _targetFPS = 0
    /\ _frameInterval \in updateFPSInterval(_targetFPS)
    /\ _lastFrameTime = 0
    /\ now \in FpsStarts
    /\ ticks = 0
    /\ polled = NoPoll
    /\ denied = FALSE
    /\ FreshFps /\ FreshCounts /\ FreshConn /\ FreshCalls
    /\ FreshRuns /\ FreshUdp
    /\ _retryDelay = DefaultRetryDelay

\* RelayClient::begin
RelayBegin ==
    /\ _startTime' = now
    /\ _lastConnectionAttempt' = 0
    /\ _frameCount' = 0
    /\ _bytesSent' = 0

FpsBegin ==
    /\ variant = "RelayClient"
    /\ RelayBegin
    /\ UNCHANGED <<variant, runVars, udpVars, now, ticks, gateVars, pollVars, _fpsTimestamps,
                   _fpsIndex, sentTimes, _clientCount, sock, pending, listening,
                   _isConnected, _hasClient, _cameraInitialized, _retryDelay,
                   callVars>>

\* d ms after the previous send, a one-byte frame is sent and fully written
FpsSend(d) ==
    /\ Len(sentTimes) < MaxSends
    /\ now' = (now + d) % ClockMod
    /\ RecordSend(1, (now + d) % ClockMod)
    /\ UNCHANGED <<variant, runVars, udpVars, ticks, _targetFPS, _frameInterval, pollVars,
                   _startTime, _clientCount, connVars, callVars>>

FpsNext ==
    \/ FpsBegin
    \/ \E d \in SendGaps : FpsSend(d)

SpecFps == FpsInit /\ [][FpsNext]_vars

\* C7 as stated: the measured rate is 0 whenever fewer than 10 successful
\* sends have been recorded since construction.
C7_ZeroBeforeTenSends ==
    Len(sentTimes) < RingSize => ActualFPS.num = 0

\* C7 as amended: in TcpServer, CameraRelayClient and CameraTcpServer the
\* measured rate is 0 whenever fewer than 10 sends have been recorded;
\* RelayClient::getActualFPS is the average since begin() and is positive as
\* soon as one frame is counted and the clock has moved since begin().
C7_ZeroBeforeTenSendsRing ==
    /\ (variant # "RelayClient" /\ Len(sentTimes) < RingSize)
          => ActualFPS.num = 0
    /\ (variant = "RelayClient" /\ _frameCount > 0 /\ now # _startTime)
          => ActualFPS.num > 0

\* nine sends are recorded in the ring and the measured rate is 0
C7_Witness ==
    /\ variant = "TcpServer"
    /\ Len(sentTimes) = RingSize - 1
    /\ ActualFPS.num = 0

\* C8: once 10 sends are recorded, the measured rate is 9000 divided by
\* (timestamp of the newest send - timestamp of the 10th-most-recent send),
\* at every position of the ring index; 10 sends 100 ms apart give 10.
C8_RateOverLastTen ==
    (variant # "RelayClient" /\ Len(sentTimes) >= RingSize) =>
        LET newest == sentTimes[Len(sentTimes)]
            tenth == sentTimes[Len(sentTimes) - (RingSize - 1)]
        IN  ActualFPS = IF newest = tenth THEN ZeroFPS
                        ELSE [num |-> 9000, den |-> newest - tenth]

----------------------------------------------------------------------------
(* The sessions.  _client is a WiFiClient of the Arduino core: "open" while *)
(* the connection is up, "dead" once the peer is gone and the socket is    *)
(* still held, "closed" after stop() or before any connection.             *)

\* _client.connected()
Connected(s) == s = "open"

\* if (_client): WiFiClient::operator bool() returns connected()
ClientBool(s) == s = "open"

\* _client.connect(host, port): a new socket replaces the held one only when
\* the connection is made
Connect(s, ok) == IF ok THEN "open" ELSE s

\* lengths of the buffer handed to sendData(): an empty buffer, and one that
\* a write can take in part
FrameLens == {0, 2}
\* what happens at one turn of RelayClient's write loop: -1, the peer is gone
\* when connected() is evaluated; n >= 0, write() accepts n bytes (at most the
\* bytes remaining)
WriteEvents == {-1, 0, 1, 2}
WriteScripts(len) == [1 .. len -> WriteEvents]
\* the socket after a write() that accepted fewer bytes than asked: still
\* open (a timeout) or closed by the core (a socket error)
AfterShortWrite == {"open", "closed"}

MaxFrames == 2
MaxClockSteps == 3
MaxClients == 2
ClockSteps == {1}
MainRates == {500}
RetryDelays == {2}
\* clock at construction: shortly before the wrap, so that a run passes
\* through the ordinary regime, the wrap, and the ordinary regime again
MainStarts == {ClockMod - 3}

Min(a, b) == IF a < b THEN a ELSE b

Call(ret, len, written) ==
    [ret |-> ret, len |-> len, written |-> written,
     afterFail |-> failedSince, gap |-> sinceSent]

\* nothing is recorded: counters, gate timestamp and ring stay
NoRecord ==
    UNCHANGED <<_bytesSent, _frameCount, _lastFrameTime, _fpsTimestamps,
                _fpsIndex, sentTimes>>

Init ==
    /\ variant \in Variants
    /\ _targetFPS \in MainRates
    /\ _frameInterval \in ConfiguredInterval(variant, _targetFPS)
    /\ _lastFrameTime = 0
    /\ now \in MainStarts
    /\ ticks = 0
    /\ polled = NoPoll
    /\ denied = FALSE
    /\ FreshFps /\ FreshCounts /\ FreshConn /\ FreshCalls
    /\ FreshRuns /\ FreshUdp
    /\ _retryDelay = DefaultRetryDelay

\* d ms pass
Advance(d) ==
    /\ ticks' = ticks + 1
    /\ now' = (now + d) % ClockMod
    /\ sinceSent' = IF sinceSent < 0 THEN sinceSent ELSE sinceSent + d
    /\ sinceAttempt' = IF sinceAttempt < 0 THEN sinceAttempt ELSE sinceAttempt + d
    /\ sinceFailure' = IF sinceFailure < 0 THEN sinceFailure ELSE sinceFailure + d
    /\ UNCHANGED <<variant, lastRun, udpVars, gateVars, pollVars, fpsVars, countVars, connVars,
                   lastCall, failedSince>>

Tick(d) == variant \in Variants /\ ticks < MaxClockSteps /\ Advance(d)

\* the peer closes the connection or the link drops
PeerDrop ==
    /\ sock = "open"
    /\ sock' = "dead"
    /\ UNCHANGED <<variant, runVars, udpVars, now, ticks, gateVars, pollVars, fpsVars, countVars,
                   pending, listening, _isConnected, _hasClient,
                   _cameraInitialized, _lastConnectionAttempt, _retryDelay,
                   callVars>>

\* a consumer connects to the listening server
PeerArrives ==
    /\ variant \in {"TcpServer", "CameraTcpServer"}
    /\ listening
    /\ ~pending
    /\ _clientCount < MaxClients
    /\ pending' = TRUE
    /\ UNCHANGED <<variant, runVars, udpVars, now, ticks, gateVars, pollVars, fpsVars, countVars,
                   sock, listening, _isConnected, _hasClient,
                   _cameraInitialized, _lastConnectionAttempt, _retryDelay,
                   callVars>>

\* setRetryDelay(d), part of the sketch's configuration in setup(): called
\* before the first run()
SetRetryDelay(d) ==
    /\ variant \in {"RelayClient", "CameraRelayClient"}
    /\ lastRun = NoRun
    /\ _retryDelay' = d
    /\ UNCHANGED <<variant, runVars, udpVars, now, ticks, gateVars, pollVars, fpsVars, countVars,
                   sock, pending, listening, _isConnected, _hasClient,
                   _cameraInitialized, _lastConnectionAttempt, callVars>>

\* begin(): RelayClient resets its statistics; TcpServer starts listening; the
\* camera classes initialise the camera (cameraOk) and CameraTcpServer then
\* starts listening.  A sketch calls it from setup(); nothing keeps it from
\* calling it again later.
Begin(cameraOk) ==
    /\ variant \in Variants
    /\ CASE variant = "RelayClient" ->
              /\ RelayBegin
              /\ sinceAttempt' = -1
              /\ UNCHANGED <<listening, _cameraInitialized>>
         [] variant = "TcpServer" ->
              /\ listening' = TRUE
              /\ UNCHANGED sinceAttempt
              /\ UNCHANGED <<_startTime, _lastConnectionAttempt, _frameCount,
                             _bytesSent, _cameraInitialized>>
         [] variant = "CameraRelayClient" ->
              /\ _cameraInitialized' = (_cameraInitialized \/ cameraOk)
              /\ UNCHANGED sinceAttempt
              /\ UNCHANGED <<_startTime, _lastConnectionAttempt, _frameCount,
                             _bytesSent, listening>>
         [] OTHER ->
              /\ _cameraInitialized' = (_cameraInitialized \/ cameraOk)
              /\ UNCHANGED sinceAttempt
              /\ listening' = (listening \/ _cameraInitialized \/ cameraOk)
              /\ UNCHANGED <<_startTime, _lastConnectionAttempt, _frameCount,
                             _bytesSent>>
    /\ UNCHANGED <<variant, lastRun, sinceFailure, udpVars, now, ticks, gateVars, pollVars, _fpsTimestamps,
                   _fpsIndex, sentTimes, _clientCount, sock, pending,
                   _isConnected, _hasClient, _retryDelay, callVars>>

----------------------------------------------------------------------------
(* RelayClient                                                             *)

\* RelayClient::attemptConnection; connect() succeeds iff ok
RelayAttemptConnection(s, ok) ==
    /\ _lastConnectionAttempt' = now
    /\ sock' = Connect(s, ok)
    /\ _isConnected' = ok

RetryDue_Always(t, last, delay) == TRUE

RetryDue_NoWrap(t, last, delay) == t - last >= delay

\* now - _lastConnectionAttempt >= _retryDelay
RetryDue(t, last, delay) == Sub32(t, last) >= delay

\* what a client's run() did about reconnecting: whether it called connect(),
\* whether the session was disconnected when it decided, the time since the
\* previous attempt and since the failure that ended the session, the delay
\* in force, and whether the camera (if any) was initialised
ClientRun(attempted, disconnected, failure, ready) ==
    [attempted |-> attempted, disconnected |-> disconnected,
     gap |-> sinceAttempt, sinceFailure |-> failure, delay |-> _retryDelay,
     ready |-> ready]

\* RelayClient::run
RelayRun(ok) ==
    /\ variant = "RelayClient"
    /\ LET lost == ~Connected(sock) /\ _isConnected
           due == /\ ~Connected(sock)
                  /\ RetryDue(now, _lastConnectionAttempt, _retryDelay)
           failure == IF lost THEN 0 ELSE sinceFailure
       IN  /\ IF Connected(sock)
              THEN /\ _isConnected' = TRUE
                   /\ UNCHANGED <<sock, _lastConnectionAttempt>>
              ELSE LET stopped == IF _isConnected THEN "closed" ELSE sock IN
                   IF due
                   THEN RelayAttemptConnection(stopped, ok)
                   ELSE /\ sock' = stopped
                        /\ _isConnected' = FALSE
                        /\ UNCHANGED _lastConnectionAttempt
           /\ lastRun' = ClientRun(due, ~Connected(sock), failure, TRUE)
           /\ sinceAttempt' = IF due THEN 0 ELSE sinceAttempt
           /\ sinceFailure' = IF _isConnected' THEN -1 ELSE failure
    /\ failedSince' = (failedSince /\ ~_isConnected')
    /\ UNCHANGED <<variant, udpVars, now, ticks, gateVars, pollVars, fpsVars,
                   countVars, pending, listening, _hasClient,
                   _cameraInitialized, _retryDelay, lastCall, sinceSent>>

\* RelayClient::sendData, the write loop: remaining bytes, bytes sent so far,
\* the socket, and what the socket does at each coming turn.  failed: a
\* write() returned 0 and the function returns false from inside the loop.
RECURSIVE RelayWriteLoop(_, _, _, _)
RelayWriteLoop(remaining, totalSent, s, script) ==
    IF ~(remaining > 0 /\ Connected(s))
    THEN [failed |-> FALSE, totalSent |-> totalSent, sock |-> s, writes |-> 0]
    ELSE IF Head(script) = -1
    THEN RelayWriteLoop(remaining, totalSent, "dead", Tail(script))
    ELSE LET sent == Min(Head(script), remaining) IN
         IF sent = 0
         THEN [failed |-> TRUE, totalSent |-> totalSent, sock |-> s,
               writes |-> 1]
         ELSE LET r == RelayWriteLoop(remaining - sent, totalSent + sent, s,
                                      Tail(script))
              IN  [r EXCEPT !.writes = @ + 1]

\* what a RelayClient::sendData() call reports: as Call, and the number of
\* write() calls its loop made
RelayCall(ret, len, written, writes) ==
    [ret |-> ret, len |-> len, written |-> written,
     afterFail |-> failedSince, gap |-> sinceSent, writes |-> writes]

RelaySendFailed_KeepsFlag ==
    /\ sock' = "closed"
    /\ _isConnected' = TRUE

\* RelayClient::sendData, write() returned 0: _client.stop();
\* _isConnected = false
RelaySendFailed ==
    /\ sock' = "closed"
    /\ _isConnected' = FALSE

RelaySendDone_KeepsOpen ==
    /\ UNCHANGED <<sock, _isConnected>>

\* RelayClient::sendData, after the loop: close the connection
RelaySendDone ==
    /\ sock' = "closed"
    /\ _isConnected' = FALSE

\* RelayClient::sendData(data, length)
RelaySendData(length, script) ==
    /\ variant = "RelayClient"
    /\ Len(sentTimes) < MaxFrames
    /\ IF ~_isConnected \/ ~RelayCanSend(now, _lastFrameTime, _frameInterval)
       THEN /\ lastCall' = RelayCall(FALSE, length, 0, 0)
            /\ NoRecord
            /\ UNCHANGED <<sock, _isConnected, sinceSent, failedSince,
                           sinceFailure>>
       ELSE LET r == RelayWriteLoop(length, 0, sock, script) IN
            IF r.failed
            THEN /\ RelaySendFailed
                 /\ lastCall' = RelayCall(FALSE, length, r.totalSent, r.writes)
                 /\ failedSince' = TRUE
                 /\ sinceFailure' = 0
                 /\ NoRecord
                 /\ UNCHANGED sinceSent
            ELSE /\ RecordSend(r.totalSent, now)
                 /\ RelaySendDone
                 /\ lastCall' = RelayCall(TRUE, length, r.totalSent,
                                        r.writes)
                 /\ sinceSent' = 0
                 /\ UNCHANGED <<failedSince, sinceFailure>>
    /\ UNCHANGED <<variant, lastRun, sinceAttempt, udpVars, now, ticks, _targetFPS, _frameInterval, pollVars,
                   _startTime, _clientCount, pending, listening, _hasClient,
                   _cameraInitialized, _lastConnectionAttempt, _retryDelay>>

\* RelayClient::disconnect
RelayDisconnect ==
    /\ variant = "RelayClient"
    /\ sock' = IF Connected(sock) THEN "closed" ELSE sock
    /\ _isConnected' = FALSE
    /\ UNCHANGED <<variant, runVars, udpVars, now, ticks, gateVars, pollVars, fpsVars, countVars,
                   pending, listening, _hasClient, _cameraInitialized,
                   _lastConnectionAttempt, _retryDelay, callVars>>

----------------------------------------------------------------------------
(* TcpServer                                                               *)

hasClient_Tracked(s) == s # "closed"

\* TcpServer::hasClient
hasClient(s) == ClientBool(s) /\ Connected(s)

disconnectClient_Keeps(s) == s

\* TcpServer::disconnectClient, the socket it leaves
disconnectClient(s) == IF ClientBool(s) THEN "closed" ELSE s

TcpServerLooksForClient_Always(s) == TRUE

\* TcpServer::run: if (!_client || !_client.connected())
TcpServerLooksForClient(s) == ~ClientBool(s) \/ ~Connected(s)

\* what a server's run() did about its client: whether the tracked client
\* was live, whether a connection waited on the listener, whether it
\* accepted one
ServerRun(live, waiting, accepted) ==
    [live |-> live, waiting |-> waiting, accepted |-> accepted,
     dead |-> sock = "dead"]

clientCountAfter_EveryLook(count, accepted) == count + 1

\* _clientCount after run() looked for a client: if (_client) _clientCount++
clientCountAfter(count, accepted) == IF accepted THEN count + 1 ELSE count

\* TcpServer::run.  _client = _server.available() replaces the held client,
\* whose socket the core closes when its last reference goes.
TcpServerRun ==
    /\ variant = "TcpServer"
    /\ LET look == TcpServerLooksForClient(sock)
           accepted == look /\ listening /\ pending
       IN  /\ IF look
              THEN IF accepted
                   THEN /\ sock' = "open"
                        /\ pending' = FALSE
                        /\ failedSince' = FALSE
                   ELSE /\ sock' = "closed"
                        /\ UNCHANGED <<pending, failedSince>>
              ELSE UNCHANGED <<sock, pending, failedSince>>
           /\ _clientCount' = IF look
                               THEN clientCountAfter(_clientCount, accepted)
                               ELSE _clientCount
           /\ lastRun' = ServerRun(hasClient(sock), listening /\ pending,
                                   accepted)
    /\ UNCHANGED <<variant, sinceAttempt, sinceFailure, udpVars, now, ticks,
                   gateVars, pollVars, fpsVars, _frameCount, _bytesSent,
                   listening, _isConnected, _hasClient, _cameraInitialized,
                   _lastConnectionAttempt, _retryDelay, lastCall, sinceSent>>

\* TcpServer::sendData(data, length); write() accepts `written` bytes and, if
\* fewer than length, leaves the socket `after`
TcpServerSendData(length, written, after) ==
    /\ variant = "TcpServer"
    /\ Len(sentTimes) < MaxFrames
    /\ IF ~hasClient(sock)
       THEN /\ lastCall' = Call(FALSE, length, 0)
            /\ NoRecord
            /\ UNCHANGED <<sock, sinceSent, failedSince>>
       ELSE IF written # length
       THEN /\ sock' = disconnectClient(after)
            /\ lastCall' = Call(FALSE, length, written)
            /\ failedSince' = TRUE
            /\ NoRecord
            /\ UNCHANGED sinceSent
       ELSE /\ RecordSend(written, now)
            /\ lastCall' = Call(TRUE, length, written)
            /\ sinceSent' = 0
            /\ UNCHANGED <<sock, failedSince>>
    /\ UNCHANGED <<variant, runVars, udpVars, now, ticks, _targetFPS, _frameInterval, pollVars,
                   _startTime, _clientCount, pending, listening, _isConnected,
                   _hasClient, _cameraInitialized, _lastConnectionAttempt,
                   _retryDelay>>

\* TcpServer::canSend, called by the caller's loop: it writes _lastFrameTime
\* when the clock is below it
TcpServerPollCanSend ==
    /\ variant = "TcpServer"
    /\ _lastFrameTime' = TcpServerCanSendLast(now, _lastFrameTime)
    /\ UNCHANGED <<variant, runVars, udpVars, now, ticks, _targetFPS, _frameInterval, pollVars,
                   fpsVars, countVars, connVars, callVars>>

\* TcpServer::disconnectClient
TcpServerDisconnectClient ==
    /\ variant = "TcpServer"
    /\ sock' = disconnectClient(sock)
    /\ UNCHANGED <<variant, runVars, udpVars, now, ticks, gateVars, pollVars, fpsVars, countVars,
                   pending, listening, _isConnected, _hasClient,
                   _cameraInitialized, _lastConnectionAttempt, _retryDelay,
                   callVars>>

----------------------------------------------------------------------------
(* CameraRelayClient                                                       *)

\* calls of esp_camera_fb_get() on the path of run() that returns `status`
FbGets(status) ==
    IF status \in {"CAMERA_CAPTURE_FAILED", "SEND_FAILED", "OK"} THEN 1 ELSE 0

\* frame buffers esp_camera_fb_get() handed over on that path (it returns
\* NULL on the CAMERA_CAPTURE_FAILED path)
FbHeld(status) == IF status \in {"SEND_FAILED", "OK"} THEN 1 ELSE 0

FbReturns_NotOnFailure(status) == IF status = "OK" THEN 1 ELSE 0

\* calls of esp_camera_fb_return(fb) on that path
FbReturns(status) == IF status \in {"SEND_FAILED", "OK"} THEN 1 ELSE 0

\* what one CameraRelayClient::run() or CameraTcpServer::run() call reports
\* of its frame: fresh, the call itself established the connection; up, the
\* session flag was set and the socket connected once the call had handled
\* the connection
CameraCall(status, len, written, fresh, up) ==
    [ret |-> status = "OK", status |-> status, len |-> len,
     written |-> written, afterFail |-> failedSince /\ ~fresh,
     gap |-> sinceSent, up |-> up, fbGets |-> FbGets(status),
     fbHeld |-> FbHeld(status), fbReturns |-> FbReturns(status)]

\* CameraRelayClient::run up to its return: the status, the socket and flag
\* it leaves, and whether attemptConnection() got past the retry delay.
\* connect() succeeds iff ok, esp_camera_fb_get() gives a frame of `length`
\* bytes iff fb, and write() accepts `written` of them.
CameraRelayOutcome(ok, fb, length, written) ==
    LET attempt == /\ ~_isConnected
                   /\ RetryDue(now, _lastConnectionAttempt, _retryDelay)
        flag1 == _isConnected \/ (attempt /\ ok)
        s1 == IF attempt THEN Connect(sock, ok) ELSE sock
        Out(status, s, flag) ==
            [status |-> status, sock |-> s, flag |-> flag,
             attempt |-> attempt, fresh |-> attempt /\ ok,
             up |-> flag1 /\ Connected(s1)]
    IN  IF ~_cameraInitialized
        THEN [status |-> "CAMERA_INIT_FAILED", sock |-> sock,
              flag |-> _isConnected, attempt |-> FALSE, fresh |-> FALSE,
              up |-> _isConnected /\ Connected(sock)]
        ELSE IF ~flag1 THEN Out("RECONNECTING", s1, FALSE)
        ELSE IF ~Connected(s1) THEN Out("NOT_CONNECTED", s1, FALSE)
        ELSE IF ~CameraRelayCanSend(now, _lastFrameTime, _frameInterval)
        THEN Out("IDLE", s1, TRUE)
        ELSE IF ~fb THEN Out("CAMERA_CAPTURE_FAILED", s1, TRUE)
        ELSE IF written # length THEN Out("SEND_FAILED", "closed", FALSE)
        ELSE Out("OK", s1, TRUE)

\* the write of a camera run() call took place
Wrote(status) == status \in {"OK", "SEND_FAILED"}

\* CameraRelayClient::run
CameraRelayClientRun(ok, fb, length, written) ==
    /\ variant = "CameraRelayClient"
    /\ LET r == CameraRelayOutcome(ok, fb, length, written) IN
       /\ sock' = r.sock
       /\ _isConnected' = r.flag
       /\ _lastConnectionAttempt' =
              IF r.attempt THEN now ELSE _lastConnectionAttempt
       /\ lastCall' = CameraCall(r.status,
                                 IF Wrote(r.status) THEN length ELSE 0,
                                 IF Wrote(r.status) THEN written ELSE 0,
                                 r.fresh, r.up)
       /\ lastRun' = ClientRun(r.attempt, ~_isConnected, sinceFailure,
                              _cameraInitialized)
       /\ sinceAttempt' = IF r.attempt THEN 0 ELSE sinceAttempt
       /\ sinceFailure' = IF r.status \in {"NOT_CONNECTED", "SEND_FAILED"} THEN 0
                          ELSE IF r.fresh THEN -1 ELSE sinceFailure
       /\ failedSince' = IF r.status = "SEND_FAILED" THEN TRUE
                         ELSE failedSince /\ ~r.fresh
       /\ IF r.status = "OK"
          THEN RecordSend(written, now) /\ sinceSent' = 0
          ELSE NoRecord /\ UNCHANGED sinceSent
    /\ UNCHANGED <<variant, udpVars, now, ticks, _targetFPS, _frameInterval, pollVars,
                   _startTime, _clientCount, pending, listening, _hasClient,
                   _cameraInitialized, _retryDelay>>

CameraRelayRun(ok, fb, length, written) ==
    Len(sentTimes) < MaxFrames /\ CameraRelayClientRun(ok, fb, length, written)

\* CameraRelayClient::disconnect
CameraRelayDisconnect ==
    /\ variant = "CameraRelayClient"
    /\ sock' = IF _isConnected THEN "closed" ELSE sock
    /\ _isConnected' = FALSE
    /\ UNCHANGED <<variant, runVars, udpVars, now, ticks, gateVars, pollVars, fpsVars, countVars,
                   pending, listening, _hasClient, _cameraInitialized,
                   _lastConnectionAttempt, _retryDelay, callVars>>

----------------------------------------------------------------------------
(* CameraTcpServer                                                         *)

\* CameraTcpServer::run up to its return: the status, the socket and flag it
\* leaves, and whether _server.available() handed over a waiting consumer
CameraServerOutcome(fb, length, written) ==
    LET look == ~_hasClient \/ ~Connected(sock)
        accepted == look /\ listening /\ pending
        s1 == IF ~look THEN sock ELSE IF accepted THEN "open" ELSE "closed"
        has1 == IF look THEN accepted ELSE _hasClient
        Out(status, s, flag) ==
            [status |-> status, sock |-> s, flag |-> flag,
             accepted |-> accepted, up |-> has1]
    IN  IF ~_cameraInitialized
        THEN [status |-> "CAMERA_INIT_FAILED", sock |-> sock,
              flag |-> _hasClient, accepted |-> FALSE,
              up |-> _hasClient /\ Connected(sock)]
        ELSE IF ~has1 THEN Out("NO_CLIENT", s1, FALSE)
        ELSE IF ~CameraServerCanSend(now, _lastFrameTime, _frameInterval)
        THEN Out("IDLE", s1, TRUE)
        ELSE IF ~fb THEN Out("CAMERA_CAPTURE_FAILED", s1, TRUE)
        ELSE IF written # length THEN Out("SEND_FAILED", "closed", FALSE)
        ELSE Out("OK", s1, TRUE)

\* CameraTcpServer::run
CameraTcpServerRun(fb, length, written) ==
    /\ variant = "CameraTcpServer"
    /\ LET r == CameraServerOutcome(fb, length, written) IN
       /\ sock' = r.sock
       /\ _hasClient' = r.flag
       /\ pending' = (pending /\ ~r.accepted)
       /\ _clientCount' = clientCountAfter(_clientCount, r.accepted)
       /\ lastCall' = CameraCall(r.status,
                                 IF Wrote(r.status) THEN length ELSE 0,
                                 IF Wrote(r.status) THEN written ELSE 0,
                                 r.accepted, r.up)
       /\ lastRun' = ServerRun(_hasClient /\ Connected(sock),
                               listening /\ pending, r.accepted)
       /\ failedSince' = IF r.status = "SEND_FAILED" THEN TRUE
                         ELSE failedSince /\ ~r.accepted
       /\ IF r.status = "OK"
          THEN RecordSend(written, now) /\ sinceSent' = 0
          ELSE NoRecord /\ UNCHANGED sinceSent
    /\ UNCHANGED <<variant, sinceAttempt, sinceFailure, udpVars, now, ticks, _targetFPS, _frameInterval, pollVars,
                   _startTime, listening, _isConnected, _cameraInitialized,
                   _lastConnectionAttempt, _retryDelay>>

CameraServerRun(fb, length, written) ==
    Len(sentTimes) < MaxFrames /\ CameraTcpServerRun(fb, length, written)

\* CameraTcpServer::disconnectClient
CameraServerDisconnectClient ==
    /\ variant = "CameraTcpServer"
    /\ sock' = IF _hasClient THEN "closed" ELSE sock
    /\ _hasClient' = FALSE
    /\ UNCHANGED <<variant, runVars, udpVars, now, ticks, gateVars, pollVars, fpsVars, countVars,
                   pending, listening, _isConnected, _cameraInitialized,
                   _lastConnectionAttempt, _retryDelay, callVars>>

Next ==
    \/ \E d \in ClockSteps : Tick(d)
    \/ PeerDrop
    \/ PeerArrives
    \/ \E d \in RetryDelays : SetRetryDelay(d)
    \/ \E cameraOk \in BOOLEAN : Begin(cameraOk)
    \/ \E ok \in BOOLEAN : RelayRun(ok)
    \/ \E length \in FrameLens : \E script \in WriteScripts(length) :
          RelaySendData(length, script)
    \/ RelayDisconnect
    \/ TcpServerRun
    \/ \E length \in FrameLens : \E written \in 0 .. length :
          \E after \in AfterShortWrite : TcpServerSendData(length, written, after)
    \/ TcpServerPollCanSend
    \/ TcpServerDisconnectClient
    \/ \E ok, fb \in BOOLEAN : \E length \in FrameLens :
          \E written \in 0 .. length : CameraRelayRun(ok, fb, length, written)
    \/ CameraRelayDisconnect
    \/ \E fb \in BOOLEAN : \E length \in FrameLens :
          \E written \in 0 .. length : CameraServerRun(fb, length, written)
    \/ CameraServerDisconnectClient

Spec == Init /\ [][Next]_vars

----------------------------------------------------------------------------
(* Claims about sending, checked under Spec                                *)

\* C1 (as stated): no two successful sends of one instance are less than the
\* configured minimum interval apart, whatever the caller does.  gap is the
\* time that passed between the previous successful send and this call.
C1_SendsSpaced ==
    (lastCall # NoCall /\ lastCall.ret = TRUE /\ lastCall.gap >= 0)
        => lastCall.gap >= _frameInterval

\* C9 (as stated): a send reports success only if every byte of the buffer
\* was written.
C9_SuccessMeansAllWritten ==
    (lastCall # NoCall /\ lastCall.ret = TRUE)
        => lastCall.written = lastCall.len

\* C10: from a failed write until a run() establishes a new connection, the
\* socket is closed, the session flags are down, and every send attempted
\* returns failure without writing a byte.
C10_FailedStaysDisconnected ==
    /\ failedSince => (sock = "closed" /\ ~_isConnected /\ ~_hasClient)
    /\ (lastCall # NoCall /\ lastCall.afterFail)
           => (lastCall.ret = FALSE /\ lastCall.written = 0)

\* a send of a non-empty buffer was attempted after a failed write, before
\* any reconnection
C10_Witness ==
    /\ failedSince
    /\ lastCall # NoCall
    /\ lastCall.afterFail
    /\ variant \in {"RelayClient", "TcpServer"}
    /\ lastCall.len > 0

----------------------------------------------------------------------------
(* UDPNetworkClient: handshake and fragmentation                           *)

HEADER_SIZE == 12
MAX_PAYLOAD_SIZE == 1400
HANDSHAKE_SIZE == 10
PASSWORD_SIZE == 8

\* width of uint16_t, the type of totalFragments and fragmentIndex
FragmentBits == 16
FragmentMod == 2 ^ FragmentBits

\* _frameId is a uint32_t; like the clock it is modelled ClockBits wide
FrameIdMod == ClockMod

\* memcpy(_password, "ESP32CAM", 8)
DefaultPassword == <<"E", "S", "P", "3", "2", "C", "A", "M">>

\* setPassword: memset(_password, 0, 8); strncpy(_password, password, 8)
strncpy8(password) ==
    [i \in 1 .. PASSWORD_SIZE |->
        IF i <= Len(password) THEN password[i] ELSE 0]

\* the packet sendHandshake() composes: 'H', 'S', then the password
Handshake(password) ==
    [kind |-> "handshake", magic |-> <<"H", "S">>, password |-> password,
     bytes |-> 2 + PASSWORD_SIZE]

totalFragments_Floor(len) ==
    LET n == (len \div MAX_PAYLOAD_SIZE) % FragmentMod
    IN  IF n = 0 THEN 1 ELSE n

\* uint16_t totalFragments = (len + MAX_PAYLOAD_SIZE - 1) / MAX_PAYLOAD_SIZE;
\* if (totalFragments == 0) totalFragments = 1;
totalFragments(len) ==
    LET n == ((len + MAX_PAYLOAD_SIZE - 1) \div MAX_PAYLOAD_SIZE) % FragmentMod
    IN  IF n = 0 THEN 1 ELSE n

payloadSize_Half(len, offset) == Min(MAX_PAYLOAD_SIZE \div 2, len - offset)

\* size_t payloadSize = min(MAX_PAYLOAD_SIZE, len - offset)
payloadSize(len, offset) == Min(MAX_PAYLOAD_SIZE, len - offset)

\* the packet of one turn of send()'s loop: the 12-byte header, then
\* payloadSize bytes of data from data + offset
Fragment(id, turn, len) ==
    LET offset == turn * MAX_PAYLOAD_SIZE IN
    [kind |-> "fragment", frameId |-> id,
     fragmentIndex |-> turn % FragmentMod,
     totalFragments |-> totalFragments(len), totalSize |-> len,
     offset |-> offset, payloadSize |-> payloadSize(len, offset),
     bytes |-> HEADER_SIZE + payloadSize(len, offset)]

\* turns of while (offset < len), offset advancing by MAX_PAYLOAD_SIZE, when
\* no endPacket() fails
Turns(len) == (len + MAX_PAYLOAD_SIZE - 1) \div MAX_PAYLOAD_SIZE

frameIdAfter_Always(id, failed) == (id + 1) % FrameIdMod

\* _frameId++ is reached only when no endPacket() failed
frameIdAfter(id, failed) == IF failed THEN id ELSE (id + 1) % FrameIdMod

MaxUdpOps == 3
\* payload lengths handed to send(): around the fragment boundaries, the
\* 3500 bytes of the protocol's example, and a JPEG frame of some 40 KB.
\* (A frame buffer of the ESP32 cannot come near the 65535 * 1400 bytes at
\* which the 16-bit fragment count would wrap.)
UdpLens == {0, 1, MAX_PAYLOAD_SIZE - 1, MAX_PAYLOAD_SIZE, MAX_PAYLOAD_SIZE + 1,
            2 * MAX_PAYLOAD_SIZE, 3500, 29 * MAX_PAYLOAD_SIZE + 123}
\* the turn whose endPacket() fails; -1: none does
FailTurns == {-1, 0, 1, 2}
\* passwords handed to setPassword(): shorter than, and longer than, 8 bytes
Passwords == {<<"p", "w">>, <<"l", "o", "n", "g", "s", "e", "c", "r", "e", "t">>}

\* a new client; or one that has been connected, greeted and sending for so
\* long that its frame counter is about to wrap
UdpInit ==
    /\ variant = "UDPNetworkClient"
    /\ _targetFPS = 0
    /\ _frameInterval = 0
    /\ _lastFrameTime = 0
    /\ now = 0
    /\ ticks = 0
    /\ polled = NoPoll
    /\ denied = FALSE
    /\ FreshFps /\ FreshCounts /\ FreshConn /\ FreshCalls /\ FreshRuns
    /\ _retryDelay = DefaultRetryDelay
    /\ wire = <<>>
    /\ udpCall = NoUdpCall
    /\ _password = DefaultPassword
    /\ udpOps = 0
    /\ \/ _connected = FALSE /\ _frameId = 0 /\ greeted = FALSE
       \/ _connected = TRUE /\ _frameId = FrameIdMod - 1 /\ greeted = TRUE

UdpQuiet ==
    UNCHANGED <<variant, now, ticks, gateVars, pollVars, fpsVars, countVars,
                connVars, callVars, runVars>>

UdpCall(op, ret, len, failed) ==
    [op |-> op, ret |-> ret, len |-> len, failed |-> failed,
     idBefore |-> _frameId, wasConnected |-> _connected]

\* setPassword(password)
UdpSetPassword(password) ==
    /\ variant = "UDPNetworkClient"
    /\ udpOps < MaxUdpOps
    /\ udpOps' = udpOps + 1
    /\ _password' = strncpy8(password)
    /\ wire' = <<>>
    /\ udpCall' = UdpCall("setPassword", TRUE, 0, FALSE)
    /\ UNCHANGED <<_connected, _frameId, greeted>>
    /\ UdpQuiet

\* connect(host, port): WiFi.hostByName() succeeds iff resolved, the
\* handshake's endPacket() iff hsOk
UdpConnect(resolved, hsOk) ==
    /\ variant = "UDPNetworkClient"
    /\ udpOps < MaxUdpOps
    /\ udpOps' = udpOps + 1
    /\ IF resolved
       THEN /\ _connected' = TRUE
            /\ _frameId' = 0
            /\ wire' = IF hsOk THEN <<Handshake(_password)>> ELSE <<>>
            /\ greeted' = hsOk
       ELSE /\ wire' = <<>>
            /\ UNCHANGED <<_connected, _frameId, greeted>>
    /\ udpCall' = UdpCall("connect", resolved, 0, resolved /\ ~hsOk)
    /\ UNCHANGED _password
    /\ UdpQuiet

\* sendHandshake()
UdpSendHandshake(hsOk) ==
    /\ variant = "UDPNetworkClient"
    /\ udpOps < MaxUdpOps
    /\ udpOps' = udpOps + 1
    /\ IF _connected
       THEN /\ _frameId' = 0
            /\ wire' = IF hsOk THEN <<Handshake(_password)>> ELSE <<>>
            /\ greeted' = (greeted \/ hsOk)
       ELSE /\ wire' = <<>>
            /\ UNCHANGED <<_frameId, greeted>>
    /\ udpCall' = UdpCall("sendHandshake", _connected, 0, _connected /\ ~hsOk)
    /\ UNCHANGED <<_connected, _password>>
    /\ UdpQuiet

\* the loop of send(): while (offset < len), offset advancing by
\* payloadSize; the endPacket() of turn failTurn fails and the function
\* returns from inside the loop.  turns: the iterations begun.
RECURSIVE UdpSendLoop(_, _, _, _)
UdpSendLoop(len, offset, turn, failTurn) ==
    IF ~(offset < len)
    THEN [failed |-> FALSE, turns |-> turn]
    ELSE IF turn = failTurn
    THEN [failed |-> TRUE, turns |-> turn + 1]
    ELSE UdpSendLoop(len, offset + payloadSize(len, offset), turn + 1,
                     failTurn)

\* send(data, len); the endPacket() of turn failTurn fails, if the loop gets
\* that far
UdpSend(len, failTurn) ==
    /\ variant = "UDPNetworkClient"
    /\ udpOps < MaxUdpOps
    /\ udpOps' = udpOps + 1
    /\ IF ~_connected
       THEN /\ wire' = <<>>
            /\ udpCall' = UdpCall("send", 0, len, FALSE)
            /\ UNCHANGED _frameId
       ELSE LET r == UdpSendLoop(len, 0, 0, failTurn)
                failed == r.failed
                sent == IF failed THEN r.turns - 1 ELSE r.turns
            IN  /\ wire' = [i \in 1 .. sent |-> Fragment(_frameId, i - 1, len)]
                /\ _frameId' = frameIdAfter(_frameId, failed)
                /\ udpCall' = UdpCall("send", IF failed THEN 0 ELSE len,
                                      len, failed)
    /\ UNCHANGED <<_connected, _password, greeted>>
    /\ UdpQuiet

\* stop()
UdpStop ==
    /\ variant = "UDPNetworkClient"
    /\ udpOps < MaxUdpOps
    /\ udpOps' = udpOps + 1
    /\ _connected' = FALSE
    /\ greeted' = FALSE
    /\ wire' = <<>>
    /\ udpCall' = UdpCall("stop", TRUE, 0, FALSE)
    /\ UNCHANGED <<_frameId, _password>>
    /\ UdpQuiet

UdpNext ==
    \/ \E password \in Passwords : UdpSetPassword(password)
    \/ \E resolved, hsOk \in BOOLEAN : UdpConnect(resolved, hsOk)
    \/ \E hsOk \in BOOLEAN : UdpSendHandshake(hsOk)
    \/ \E len \in UdpLens : \E failTurn \in FailTurns : UdpSend(len, failTurn)
    \/ UdpStop

SpecUdp == UdpInit /\ [][UdpNext]_vars

----------------------------------------------------------------------------
(* Claims about the datagram transport, checked under SpecUdp              *)

\* the last call was a send() made while connected in which no endPacket()
\* failed
SentWhole ==
    /\ udpCall.op = "send"
    /\ udpCall.wasConnected
    /\ ~udpCall.failed

\* the datagrams on the wire are the n fragments of a frame of L bytes, in
\* order: indices 0..n-1, one frame id, count n and size L in every header,
\* 1400 payload bytes in each but the last, the payloads consecutive slices
\* of the input
FragmentsOf(n, L) ==
    /\ Len(wire) = n
    /\ \A i \in 1 .. n :
          /\ wire[i].kind = "fragment"
          /\ wire[i].fragmentIndex = i - 1
          /\ wire[i].frameId = udpCall.idBefore
          /\ wire[i].totalFragments = n
          /\ wire[i].totalSize = L
          /\ wire[i].offset = 1400 * (i - 1)
          /\ wire[i].payloadSize = IF i < n THEN 1400 ELSE L - 1400 * (n - 1)
          /\ wire[i].bytes = 12 + wire[i].payloadSize

C12_EmptyFrameOneFragment ==
    (SentWhole /\ udpCall.len = 0)
        => /\ Len(wire) = 1
           /\ wire[1].fragmentIndex = 0
           /\ wire[1].totalFragments = 1
           /\ wire[1].totalSize = 0
           /\ wire[1].payloadSize = 0

\* C13: after a send() the frame id is one more (modulo its width) than
\* before if every fragment was transmitted, and what it was before if an
\* endPacket() failed or the client was not connected; every fragment sent
\* by the call carries the id the call started with.
C13_FrameIdPerSend ==
    udpCall.op = "send"
        => /\ _frameId = IF udpCall.wasConnected /\ ~udpCall.failed
                         THEN (udpCall.idBefore + 1) % FrameIdMod
                         ELSE udpCall.idBefore
           /\ \A i \in 1 .. Len(wire) : wire[i].frameId = udpCall.idBefore

\* a send failed after its first fragments had gone out
C13_Witness ==
    /\ udpCall.op = "send"
    /\ udpCall.failed
    /\ Len(wire) = 2
    /\ _frameId = udpCall.idBefore

\* C14 (as stated): every successful connect() marks the transport
\* connected, resets the frame id to 0 and transmits exactly one handshake
\* packet, 'H', 'S' and the 8 password bytes.
C14_ConnectGreets ==
    (udpCall.op = "connect" /\ udpCall.ret = TRUE)
        => /\ _connected
           /\ _frameId = 0
           /\ wire = <<Handshake(_password)>>
           /\ wire[1].bytes = HANDSHAKE_SIZE

----------------------------------------------------------------------------
(* Claims about the sessions, checked under Spec                           *)

ClientVariants == {"RelayClient", "CameraRelayClient"}
ServerVariants == {"TcpServer", "CameraTcpServer"}

\* the last run() was a client's
ClientRan == variant \in ClientVariants /\ lastRun # NoRun
\* the last run() was a server's
ServerRan == variant \in ServerVariants /\ lastRun # NoRun

\* C15: a client's run() makes a connection attempt only when at least
\* retryDelay ms have passed since the previous attempt, and, when the
\* session is disconnected (and the camera, if any, is initialised), makes
\* one as soon as they have: consecutive attempts are at least retryDelay
\* apart.
C15_Backoff ==
    (ClientRan /\ lastRun.gap >= 0)
        => /\ lastRun.attempted => lastRun.gap >= lastRun.delay
           /\ (lastRun.disconnected /\ lastRun.ready
                  /\ lastRun.gap >= lastRun.delay) => lastRun.attempted

\* a run() made the next attempt exactly retryDelay after the previous one
C15_Witness ==
    /\ ClientRan
    /\ lastRun.attempted
    /\ lastRun.delay > 0
    /\ lastRun.gap = lastRun.delay
    /\ ~_isConnected

\* C16 (as stated): after a failure at time t ended a Connected session, no
\* reconnection attempt is made before t + retryDelay.
C16_BackoffFromFailure ==
    (ClientRan /\ lastRun.attempted /\ lastRun.gap >= 0
        /\ lastRun.sinceFailure >= 0)
        => lastRun.sinceFailure >= lastRun.delay

\* C17 (as stated): in the client role, immediately after a successful send
\* (the step that counts a frame) the socket is closed and the session is
\* Disconnected.
C17_ClosedAfterSend ==
    [][(variant \in ClientVariants /\ _frameCount' = _frameCount + 1)
          => (sock' = "closed" /\ ~_isConnected')]_vars

\* the server tracks a client that passes the liveness check
TrackedLive ==
    IF variant = "TcpServer" THEN hasClient(sock)
    ELSE _hasClient /\ Connected(sock)

\* a step of a server's run()
ServerRunStep ==
    \/ TcpServerRun
    \/ \E fb \in BOOLEAN : \E length \in FrameLens :
          \E written \in 0 .. length : CameraServerRun(fb, length, written)

\* C18: while the tracked client is live, run() takes no connection from the
\* listener and leaves the clients-served count and the tracked client as
\* they are (CameraTcpServer's run() may still drop the client over a failed
\* write, never replace it); so a connection is accepted only when no client
\* is tracked or the tracked one fails the liveness check.
C18_OneClient ==
    [][(variant \in ServerVariants /\ TrackedLive /\ ServerRunStep)
          => /\ pending' = pending
             /\ _clientCount' = _clientCount
             /\ sock' \in {sock, "closed"}
             /\ variant = "TcpServer" => sock' = sock]_vars

\* run() was called with a live client while another connection waited, and
\* that connection still waits
C18_Witness ==
    /\ ServerRan
    /\ lastRun.live
    /\ lastRun.waiting
    /\ ~lastRun.accepted
    /\ pending
    /\ sock = "open"
    /\ _clientCount = 1

\* hasClient() of the server classes
HasClient == IF variant = "TcpServer" THEN hasClient(sock) ELSE _hasClient

\* the camera, if the class has one, is initialised: run() gets past its
\* first check
CameraReady == variant = "TcpServer" \/ _cameraInitialized

C20_ShortWriteDisconnects ==
    [][/\ (variant \in ServerVariants /\ ~failedSince /\ failedSince')
           => /\ sock' = "closed"
              /\ ~HasClient'
              /\ lastCall'.ret = FALSE
              /\ UNCHANGED <<_frameCount, _bytesSent, _lastFrameTime>>
       /\ (variant \in ServerVariants /\ failedSince /\ ServerRunStep
              /\ listening /\ pending /\ CameraReady)
           => _clientCount' = _clientCount + 1]_vars

\* a server's write took 1 of 2 bytes; the client is gone and nothing was
\* counted
C20_Witness ==
    /\ variant \in ServerVariants
    /\ failedSince
    /\ lastCall # NoCall
    /\ ~lastCall.afterFail
    /\ lastCall.len = 2
    /\ lastCall.written = 1
    /\ ~HasClient

----------------------------------------------------------------------------
(* Claims about the composed run() of the camera classes                   *)

CameraVariants == {"CameraRelayClient", "CameraTcpServer"}

\* a step of a camera class's run()
CameraRunStep ==
    \/ \E ok, fb \in BOOLEAN : \E length \in FrameLens :
          \E written \in 0 .. length : CameraRelayRun(ok, fb, length, written)
    \/ \E fb \in BOOLEAN : \E length \in FrameLens :
          \E written \in 0 .. length : CameraServerRun(fb, length, written)

\* the rate gate of the camera classes permits a send at the current time
GatePermits == now < _lastFrameTime \/ now - _lastFrameTime >= _frameInterval

\* the statuses of a run() that found the session down, and the idle status
DownOrIdle == {"NOT_CONNECTED", "NO_CLIENT", "RECONNECTING", "IDLE"}

\* C21 (as stated): run() invokes the frame producer only in a tick in which
\* the session is connected (has a client) and the rate gate permits, and at
\* most once; in every other tick it returns the not-connected, no-client,
\* reconnecting or idle status without acquiring a frame.
C21_ProducerGated ==
    [][(variant \in CameraVariants /\ CameraRunStep)
          => /\ lastCall'.fbGets <= 1
             /\ lastCall'.fbGets = 1 => (lastCall'.up /\ GatePermits)
             /\ ~(lastCall'.up /\ GatePermits)
                   => /\ lastCall'.status \in DownOrIdle
                      /\ lastCall'.fbGets = 0]_vars

\* C21 (amended): as C21, for an instance whose camera is initialised; a
\* run() before that returns CAMERA_INIT_FAILED, whatever the session and the
\* gate, and does not invoke the producer either.  A tick in which the
\* session is up and the gate permits invokes the producer.
C21_ProducerGatedOnceBegun ==
    [][(variant \in CameraVariants /\ CameraRunStep)
          => /\ lastCall'.fbGets <= 1
             /\ lastCall'.fbGets = 1
                   => (_cameraInitialized /\ lastCall'.up /\ GatePermits)
             /\ (_cameraInitialized /\ ~(lastCall'.up /\ GatePermits))
                   => /\ lastCall'.status \in DownOrIdle
                      /\ lastCall'.fbGets = 0
             /\ ~_cameraInitialized
                   => /\ lastCall'.status = "CAMERA_INIT_FAILED"
                      /\ lastCall'.fbGets = 0
             /\ (_cameraInitialized /\ lastCall'.up /\ GatePermits)
                   => lastCall'.fbGets = 1
             /\ lastCall'.status \in {"IDLE", "CAMERA_CAPTURE_FAILED", "OK"}
                   => sock' = "open"]_vars

\* a run() with the session connected returned IDLE, the gate not permitting,
\* and did not invoke the producer
C21_Witness ==
    /\ variant \in CameraVariants
    /\ lastCall # NoCall
    /\ lastCall.status = "IDLE"
    /\ lastCall.up
    /\ lastCall.fbGets = 0
    /\ _frameCount = 1
    /\ ~GatePermits

\* a step of a send: sendData() of the plain classes, run() of the camera
\* classes
SendStep ==
    \/ \E length \in FrameLens : \E script \in WriteScripts(length) :
          RelaySendData(length, script)
    \/ \E length \in FrameLens : \E written \in 0 .. length :
          \E after \in AfterShortWrite : TcpServerSendData(length, written, after)
    \/ CameraRunStep

\* C22 (as stated): the frame count, the byte count and the gate's last-send
\* timestamp change only in a send (tick) that reports success, which adds
\* one frame and the length of its frame and stamps the current time; every
\* other operation leaves all three as they were.  (Step by step, this is
\* "frame count = number of successes, byte count = sum of their lengths".)
C22_CountersFollowSuccess ==
    [][/\ (SendStep /\ lastCall'.ret = TRUE)
           => /\ _frameCount' = _frameCount + 1
              /\ _bytesSent' = _bytesSent + lastCall'.len
              /\ _lastFrameTime' = now
       /\ ~(SendStep /\ lastCall'.ret = TRUE)
           => UNCHANGED <<_frameCount, _bytesSent, _lastFrameTime>>]_vars

----------------------------------------------------------------------------
(* The end-to-end scenario: a camera instance with its session up calls    *)
(* run() every E2EPeriod ms for E2EWindow ms; the producer always has a    *)
(* frame and every write takes the whole frame.                            *)

\* target rate of the scenario (the rate of main.cpp's client mode)
E2ERate == 10
\* ms between two calls of run()
E2EPeriod == 50
\* length of the scenario in ms
E2EWindow == 1000
\* calls of run() in the scenario: at 0, 50, ... 950 ms from its start
E2ETicks == E2EWindow \div E2EPeriod
\* frames the scenario is to send
E2EFrames == (E2EWindow * E2ERate) \div 1000

\* clock at the first run(): at boot, within the first interval after it,
\* later, and before the wrap of the clock, with and without the wrap
\* falling inside the scenario
E2EStarts == {0, 30, 100, 5000, ClockMod - 1000, ClockMod - 450}

\* the instance after begin() and a run() that connected (accepted a client)
\* and sent nothing yet
E2EInit ==
    /\ variant \in CameraVariants
    /\ _targetFPS = E2ERate
    /\ _frameInterval \in ConfiguredInterval(variant, _targetFPS)
    /\ _lastFrameTime = 0
    /\ now \in E2EStarts
    /\ ticks = 0
    /\ polled = NoPoll
    /\ denied = FALSE
    /\ FreshFps /\ FreshCalls /\ FreshRuns /\ FreshUdp
    /\ _frameCount = 0
    /\ _bytesSent = 0
    /\ _clientCount = IF variant = "CameraTcpServer" THEN 1 ELSE 0
    /\ sock = "open"
    /\ pending = FALSE
    /\ listening = (variant = "CameraTcpServer")
    /\ _isConnected = (variant = "CameraRelayClient")
    /\ _hasClient = (variant = "CameraTcpServer")
    /\ _cameraInitialized = TRUE
    /\ _lastConnectionAttempt = 0
    /\ _retryDelay = DefaultRetryDelay

\* the run() has been called at the current clock value
E2ERanNow == polled # NoPoll /\ polled.at = now

\* run() of the scenario: connect() would succeed, the producer hands over a
\* frame of `length` bytes, write() takes all of them
E2ERun(length) ==
    /\ ticks < E2ETicks
    /\ ~E2ERanNow
    /\ ticks' = ticks + 1
    /\ polled' = [ret |-> CanSend(variant, now, _lastFrameTime, _frameInterval),
                  at |-> now, last |-> _lastFrameTime,
                  interval |-> _frameInterval, fps |-> _targetFPS]
    /\ LET r == IF variant = "CameraRelayClient"
                THEN CameraRelayOutcome(TRUE, TRUE, length, length)
                ELSE CameraServerOutcome(TRUE, length, length)
       IN  /\ sock' = r.sock
           /\ IF variant = "CameraRelayClient"
              THEN _isConnected' = r.flag /\ UNCHANGED _hasClient
              ELSE _hasClient' = r.flag /\ UNCHANGED _isConnected
           /\ lastCall' = CameraCall(r.status,
                                     IF Wrote(r.status) THEN length ELSE 0,
                                     IF Wrote(r.status) THEN length ELSE 0,
                                     FALSE, r.up)
           /\ IF r.status = "OK"
              THEN RecordSend(length, now) /\ sinceSent' = 0
              ELSE NoRecord /\ UNCHANGED sinceSent
    /\ UNCHANGED <<variant, now, _targetFPS, _frameInterval, denied,
                   _startTime, _clientCount, pending, listening,
                   _cameraInitialized, _lastConnectionAttempt, _retryDelay,
                   failedSince, runVars, udpVars>>

\* the caller's loop comes round E2EPeriod ms later
E2EWait ==
    /\ ticks < E2ETicks
    /\ E2ERanNow
    /\ now' = (now + E2EPeriod) % ClockMod
    /\ sinceSent' = IF sinceSent < 0 THEN sinceSent ELSE sinceSent + E2EPeriod
    /\ UNCHANGED <<variant, ticks, gateVars, pollVars, fpsVars, countVars,
                   connVars, lastCall, failedSince, runVars, udpVars>>

E2ENext ==
    \/ \E length \in FrameLens : E2ERun(length)
    \/ E2EWait

SpecE2E == E2EInit /\ [][E2ENext]_vars

\* the scenario is over: the last run() has been made
E2EDone == ticks = E2ETicks

\* clock at the first run() of the scenario
E2EStart ==
    Sub32(now, E2EPeriod * (IF E2ERanNow THEN ticks - 1 ELSE ticks))

\* the sends recorded are 100 ms apart
E2ESpaced ==
    \A i \in 1 .. (Len(sentTimes) - 1) :
        Sub32(sentTimes[i + 1], sentTimes[i]) = 100

----------------------------------------------------------------------------
(* Recovery.  Failures (a refused connect, a short write, a dropped peer)  *)
(* happen during the first HealFaultTicks ms; from then on the peer is     *)
(* reachable, the clock keeps running for at least one retry delay more    *)
(* and loop() keeps calling run().                                         *)

HealFaultTicks == 2
\* the longest retry delay configured
LongestRetryDelay == CHOOSE d \in RetryDelays : \A e \in RetryDelays : e <= d
\* ms from the earliest start of the clock to its wrap
WrapTicks ==
    LET ToWrap == {ClockMod - t : t \in MainStarts}
    IN  CHOOSE w \in ToWrap : \A v \in ToWrap : v <= w
\* the clock runs on for one retry delay after the last failure and after
\* its wrap: a run() made then finds the delay elapsed, whichever attempt
\* time (0 after construction included) it measures from
HealTicks ==
    (IF HealFaultTicks > WrapTicks THEN HealFaultTicks ELSE WrapTicks)
        + LongestRetryDelay

\* failures can still happen
Faulty == ticks < HealFaultTicks

\* the instance after setup(): begin() called, the retry delay configured
HealInit ==
    /\ variant \in Variants
    /\ _targetFPS \in MainRates
    /\ _frameInterval \in ConfiguredInterval(variant, _targetFPS)
    /\ _lastFrameTime = 0
    /\ now \in MainStarts
    /\ ticks = 0
    /\ polled = NoPoll
    /\ denied = FALSE
    /\ FreshFps /\ FreshCounts /\ FreshCalls /\ FreshRuns /\ FreshUdp
    /\ sock = "closed"
    /\ pending = FALSE
    /\ listening = (variant \in ServerVariants)
    /\ _isConnected = FALSE
    /\ _hasClient = FALSE
    /\ _cameraInitialized = (variant \in CameraVariants)
    /\ _lastConnectionAttempt = 0
    /\ _retryDelay \in RetryDelays

HealTick == ticks < HealTicks /\ Advance(1)

HealPeerDrop == Faulty /\ PeerDrop

\* run() of the instance's class; connect() and write() fail only while
\* failures can still happen, and the producer has a frame only while the
\* model has room for another send
HealRun ==
    \/ \E ok \in BOOLEAN : (Faulty \/ ok) /\ RelayRun(ok)
    \/ TcpServerRun
    \/ \E ok, fb \in BOOLEAN : \E length \in FrameLens :
          \E written \in 0 .. length :
             /\ Faulty \/ (ok /\ written = length)
             /\ Len(sentTimes) < MaxFrames \/ ~fb
             /\ CameraRelayClientRun(ok, fb, length, written)
    \/ \E fb \in BOOLEAN : \E length \in FrameLens :
          \E written \in 0 .. length :
             /\ Faulty \/ written = length
             /\ Len(sentTimes) < MaxFrames \/ ~fb
             /\ CameraTcpServerRun(fb, length, written)

\* the caller's sends and disconnects, which end a session
HealCaller ==
    /\ Faulty
    /\ \/ \E length \in FrameLens : \E script \in WriteScripts(length) :
             RelaySendData(length, script)
       \/ \E length \in FrameLens : \E written \in 0 .. length :
             \E after \in AfterShortWrite :
                TcpServerSendData(length, written, after)
       \/ RelayDisconnect
       \/ TcpServerDisconnectClient
       \/ CameraRelayDisconnect
       \/ CameraServerDisconnectClient

HealNext ==
    \/ HealTick
    \/ HealPeerDrop
    \/ PeerArrives
    \/ HealRun
    \/ HealCaller

\* the clock runs by itself and loop() calls run() on every iteration
SpecHeal ==
    HealInit /\ [][HealNext]_vars /\ WF_vars(HealTick) /\ WF_vars(HealRun)

\* the session is Connected / HasClient, over a live connection
SessionUp ==
    /\ sock = "open"
    /\ CASE variant \in ClientVariants -> _isConnected
         [] variant = "TcpServer" -> hasClient(sock)
         [] OTHER -> _hasClient

\* the peer is reachable from now on: connect() succeeds and writes go
\* through, which HealRun sees to once failures are over, and, for a server,
\* a consumer waits on the listener
PeerWaits ==
    /\ ~Faulty
    /\ variant \in ClientVariants \/ (listening /\ pending)

\* C24: whenever the session is down (after a refused connect, a failed
\* write, a dropped peer, a disconnect, or not yet connected) and the peer is
\* reachable from then on, the session eventually is Connected / HasClient
\* again.
C24_SelfHeals == (~SessionUp /\ PeerWaits) ~> SessionUp

\* a run() found the session ended by a failure and connected again
C24_Witness ==
    /\ ClientRan
    /\ lastRun.attempted
    /\ lastRun.sinceFailure >= 0
    /\ lastRun.gap >= lastRun.delay
    /\ SessionUp
    /\ ~Faulty

----------------------------------------------------------------------------
(* Further claims about the sessions, checked under Spec                   *)

\* RelayClient::isConnected, CameraRelayClient::isConnected: the flag
isConnected == _isConnected

\* the connection query of the instance's class: isConnected() of the
\* clients, hasClient() of the servers
ConnectionQuery ==
    IF variant \in ClientVariants THEN isConnected ELSE HasClient

\* C25 (as stated): the connection query never returns true while the
\* underlying connection is dead or closed, whether or not run() has been
\* called since.
C25_QueryRechecks == ConnectionQuery => sock = "open"

----------------------------------------------------------------------------
(* The sessions and the datagram transport side by side: an instance is of *)
(* one of the four session classes or a UDPNetworkClient.                  *)

SendNext == Next \/ UdpNext

SendInit == Init \/ UdpInit

SpecSend == SendInit /\ [][SendNext]_vars

\* the call in progress reports failure, wrote nothing and recorded nothing
Refused ==
    /\ lastCall'.ret = FALSE
    /\ lastCall'.written = 0
    /\ UNCHANGED <<_frameCount, _bytesSent, _lastFrameTime, _fpsTimestamps,
                   _fpsIndex, sentTimes>>

\* C26: a send attempted while the session is Disconnected (RelayClient),
\* while the server has no live client (TcpServer), in a camera run() that
\* finds the session down, or while the datagram transport is not connected
\* returns failure (false, 0 bytes), transmits nothing and leaves the
\* counters, the datagram frame id and the gate's last-send timestamp
\* unchanged: no such step of a stream session is anything but refused.
C26_DownSendRefused ==
    [][/\ ~(/\ variant = "RelayClient"
            /\ ~_isConnected
            /\ (lastCall' = NoCall \/ ~Refused)
            /\ \E length \in FrameLens : \E script \in WriteScripts(length) :
                  RelaySendData(length, script))
       /\ ~(/\ variant = "TcpServer"
            /\ sock # "open"
            /\ (lastCall' = NoCall \/ ~Refused)
            /\ \E length \in FrameLens : \E written \in 0 .. length :
                  \E after \in AfterShortWrite :
                     TcpServerSendData(length, written, after))
       /\ ~(/\ variant \in CameraVariants
            /\ lastCall' # NoCall
            /\ ~lastCall'.up
            /\ ~Refused
            /\ CameraRunStep)
       /\ (/\ variant = "UDPNetworkClient"
           /\ ~_connected
           /\ udpOps' = udpOps + 1
           /\ udpCall'.op = "send")
          => /\ udpCall'.ret = 0
             /\ wire' = <<>>
             /\ _frameId' = _frameId]_vars

\* a TcpServer that had sent a frame was asked to send another after its
\* consumer had gone, and refused
C26_Witness ==
    /\ variant = "TcpServer"
    /\ sock = "dead"
    /\ lastCall # NoCall
    /\ lastCall.ret = FALSE
    /\ lastCall.len = 2
    /\ ~failedSince
    /\ _frameCount = 1
    /\ _bytesSent = 2

----------------------------------------------------------------------------
(* Claims about disconnect() and the counters, checked under Spec          *)

\* a step of disconnect() / disconnectClient()
DisconnectStep ==
    \/ RelayDisconnect
    \/ TcpServerDisconnectClient
    \/ CameraRelayDisconnect
    \/ CameraServerDisconnectClient

\* a disconnect() / disconnectClient() called now would change nothing
DisconnectIdle ==
    CASE variant = "RelayClient" -> ~Connected(sock) /\ ~_isConnected
      [] variant = "TcpServer" -> ~ClientBool(sock)
      [] variant = "CameraRelayClient" -> ~_isConnected
      [] OTHER -> ~_hasClient

\* C27 (as stated): disconnect() / disconnectClient(), called in any
\* reachable state, leaves the session Disconnected / without a client and
\* the socket closed, leaves the counters as they were, and a second call
\* changes nothing.
C27_DisconnectCloses ==
    [][DisconnectStep
          => /\ ~ConnectionQuery'
             /\ sock' = "closed"
             /\ DisconnectIdle'
             /\ UNCHANGED countVars]_vars

\* C28 (as stated): no public operation (begin, run, send, disconnect,
\* setTargetFPS) decreases the frames-sent, bytes-sent or clients-served
\* counter.
C28_CountersMonotone ==
    [][/\ _frameCount' >= _frameCount
       /\ _bytesSent' >= _bytesSent
       /\ _clientCount' >= _clientCount]_vars

\* a step of a client's run()
ClientRunStep ==
    \/ \E ok \in BOOLEAN : RelayRun(ok)
    \/ \E ok, fb \in BOOLEAN : \E length \in FrameLens :
          \E written \in 0 .. length : CameraRelayRun(ok, fb, length, written)

\* the socket the instance holds when its run() reaches connect() or
\* _server.available(): run() has stopped it if its guard for that held
\* (RelayClient: _isConnected; TcpServer: _client; CameraTcpServer:
\* _hasClient; CameraRelayClient has no stop() on that path)
HeldAtConnect ==
    CASE variant = "RelayClient" -> IF _isConnected THEN "closed" ELSE sock
      [] variant = "TcpServer" -> IF ClientBool(sock) THEN "closed" ELSE sock
      [] variant = "CameraRelayClient" -> sock
      [] OTHER -> IF _hasClient THEN "closed" ELSE sock

\* the step is a run() that calls connect(), or one that accepts a
\* connection from the listener
NewConnection ==
    \/ ClientRunStep /\ lastRun'.attempted
    \/ ServerRunStep /\ lastRun'.accepted

\* C29 (as stated): when a new connection is connected or accepted, the one
\* held before has been closed with stop(), also when it was found dead by
\* the liveness check: the session never holds two.
C29_OneTransport ==
    [][NewConnection => HeldAtConnect = "closed"]_vars

----------------------------------------------------------------------------
(* The clients-served count, checked under Spec                            *)

\* the step takes a waiting connection off the listener: _server.available()
\* handed it to run()
AcceptStep == pending /\ ~pending'

\* C31: the clients-served count goes up by exactly 1 in a step in which
\* run() accepts a connection and is unchanged in every other step; it starts
\* at 0, so it equals the number of connections accepted so far.
C31_CountsAccepts ==
    [][/\ AcceptStep => (ServerRunStep /\ _clientCount' = _clientCount + 1)
       /\ ~AcceptStep => _clientCount' = _clientCount]_vars

\* a CameraTcpServer has accepted its second consumer
C31_Witness ==
    /\ variant = "CameraTcpServer"
    /\ _clientCount = 2
    /\ lastRun # NoRun
    /\ lastRun.accepted
    /\ sock = "open"
    /\ ~pending

----------------------------------------------------------------------------
(* canSend() as a query, checked under SpecGate                            *)

\* C32 (as stated): canSend() leaves the last-send timestamp and every other
\* field of the instance unchanged, at every clock value, also after a wrap;
\* a second call at the same clock value gives the answer of the first.
C32_CanSendPure ==
    [][GateCanSend
          => /\ UNCHANGED <<_lastFrameTime, _frameInterval, _targetFPS,
                            fpsVars, countVars, connVars>>
             /\ (polled # NoPoll /\ polled.at = now)
                   => polled'.ret = polled.ret]_vars

----------------------------------------------------------------------------
(* Frame ids on the wire, checked under SpecUdp                            *)

\* the step is a send() that follows a send() directly, no handshake in
\* between, and both put fragments on the wire
SendAfterSend ==
    /\ udpCall.op = "send"
    /\ wire # <<>>
    /\ udpOps' = udpOps + 1
    /\ udpCall'.op = "send"
    /\ wire' # <<>>

\* C33 (as stated): between two handshakes no two send() calls put fragments
\* with the same frame id on the wire, also when the first of them failed
\* after it had transmitted some fragments.
C33_FrameIdPerCall ==
    [][SendAfterSend
          => \A i \in 1 .. Len(wire) : \A j \in 1 .. Len(wire') :
                wire'[j].frameId # wire[i].frameId]_vars

----------------------------------------------------------------------------
(* RelayClient at the sketch's rate and the default retry delay: how close *)
(* two frames can come.                                                    *)

\* clock values at begin(): some time after boot, and one retry delay
\* before the wrap
RateStarts == {DefaultRetryDelay, ClockMod - DefaultRetryDelay}

\* times between two calls of the caller's loop: the gate interval, and
\* the rest of the retry delay after one gate interval
RateSteps == {1000 \div E2ERate, DefaultRetryDelay - 1000 \div E2ERate}

MaxRateTicks == 2

\* a RelayClient constructed with the sketch's rate, after begin()
RateInit ==
    /\ variant = "RelayClient"
    /\ _targetFPS = E2ERate
    /\ _frameInterval \in ConfiguredInterval(variant, _targetFPS)
    /\ _lastFrameTime = 0
    /\ now \in RateStarts
    /\ ticks = 0
    /\ polled = NoPoll
    /\ denied = FALSE
    /\ _fpsTimestamps = EmptyRing
    /\ _fpsIndex = 0
    /\ _startTime = now
    /\ sentTimes = << >>
    /\ FreshCounts /\ FreshConn /\ FreshCalls /\ FreshRuns /\ FreshUdp
    /\ _retryDelay = DefaultRetryDelay

RateTick(d) == ticks < MaxRateTicks /\ Advance(d)

RateNext ==
    \/ \E d \in RateSteps : RateTick(d)
    \/ \E ok \in BOOLEAN : RelayRun(ok)
    \/ \E length \in FrameLens : \E script \in WriteScripts(length) :
          RelaySendData(length, script)
    \/ PeerDrop

SpecRate == RateInit /\ [][RateNext]_vars

\* the last sendData() returned true
RelaySent == variant = "RelayClient" /\ lastCall # NoCall /\ lastCall.ret = TRUE

\* a connection attempt was made after the previous successful send, and
\* the session it opened carried this one
ConnectedSincePreviousSend ==
    /\ sinceAttempt >= 0
    /\ lastCall.gap >= 0 => sinceAttempt - sinceSent <= lastCall.gap

\* C34 (as stated): a RelayClient sends no more frames than it has made
\* successful connection attempts, the attempts are retryDelay apart, and so
\* at most one frame is sent per retryDelay window: a successful send comes
\* no sooner than retryDelay after the previous one.
C34_FramePerRetryDelay ==
    /\ RelaySent => ConnectedSincePreviousSend
    /\ (ClientRan /\ lastRun.attempted /\ lastRun.gap >= 0)
          => lastRun.gap >= _retryDelay
    /\ (RelaySent /\ lastCall.gap >= 0) => lastCall.gap >= _retryDelay

\* C34 (amended): a RelayClient sends no more frames than it has made
\* successful connection attempts, the attempts are retryDelay apart, and
\* successive frames are at least the gate interval apart; they can be nearer
\* than retryDelay, one sent late on a connection and the next early on the
\* following one.
C34_FramePerConnection ==
    /\ RelaySent => ConnectedSincePreviousSend
    /\ (ClientRan /\ lastRun.attempted /\ lastRun.gap >= 0)
          => lastRun.gap >= _retryDelay
    /\ (RelaySent /\ lastCall.gap >= 0) => lastCall.gap >= _frameInterval

\* two frames one gate interval apart, each on a connection of its own
C34_Witness ==
    /\ RelaySent
    /\ _frameCount = 2
    /\ lastCall.gap = _frameInterval
    /\ lastCall.gap < _retryDelay
    /\ sinceAttempt = 0
    /\ lastRun.gap = _retryDelay

----------------------------------------------------------------------------
(* The first connection attempt, checked under Spec                        *)

\* C35 (as stated): a client that has made no connection attempt since it
\* was constructed and begun makes one in its run(), whatever the clock
\* reads: the retry delay applies between attempts, not before the first.
C35_FirstAttemptAtOnce ==
    (ClientRan /\ lastRun.gap < 0 /\ lastRun.disconnected /\ lastRun.ready)
        => lastRun.attempted

----------------------------------------------------------------------------
(* A failed connect(), checked under SpecUdp                               *)

\* C36 (as stated): after a connect() that returned false, connected()
\* returns false, and a send() that follows transmits nothing, also when the
\* transport was connected before the failed connect().
C36_FailedConnectDisconnects ==
    [][/\ (udpCall'.op = "connect" /\ udpCall'.ret = FALSE) => ~_connected'
       /\ (/\ udpCall.op = "connect"
           /\ udpCall.ret = FALSE
           /\ udpOps' = udpOps + 1
           /\ udpCall'.op = "send")
          => (wire' = <<>> /\ udpCall'.ret = 0)]_vars

----------------------------------------------------------------------------
(* The return value of send(), checked under SpecUdp                       *)

\* C37 (as stated): send() returns the failure value 0 exactly when the
\* frame was not fully transmitted (not connected, or an endPacket()
\* failed), and another value exactly when it advanced the frame id, for
\* every payload length, 0 included.
C37_ReturnTellsSuccess ==
    udpCall.op = "send"
        => /\ udpCall.ret = 0 <=> (~udpCall.wasConnected \/ udpCall.failed)
           /\ udpCall.ret # 0
                 <=> _frameId = (udpCall.idBefore + 1) % FrameIdMod

----------------------------------------------------------------------------
(* The header fields over the whole range of lengths: the packet composed  *)
(* in one turn of send()'s loop.                                           *)

\* payload lengths: small ones, the largest whose fragment count fits 16
\* bits, and the first ones beyond it
HeaderLens == {1, MAX_PAYLOAD_SIZE, MAX_PAYLOAD_SIZE + 1, 3500,
               (FragmentMod - 1) * MAX_PAYLOAD_SIZE,
               (FragmentMod - 1) * MAX_PAYLOAD_SIZE + 1,
               FragmentMod * MAX_PAYLOAD_SIZE,
               FragmentMod * MAX_PAYLOAD_SIZE + 1,
               (FragmentMod + 2) * MAX_PAYLOAD_SIZE}

\* the turns looked at: the first two, the last two, and those at which the
\* 16-bit index is at its largest and wraps
HeaderTurns(len) ==
    {0, 1, FragmentMod - 1, FragmentMod, Turns(len) - 2, Turns(len) - 1}
        \cap (0 .. (Turns(len) - 1))

\* a connected client, new or with its frame counter about to wrap
HeaderInit ==
    /\ variant = "UDPNetworkClient"
    /\ _targetFPS = 0
    /\ _frameInterval = 0
    /\ _lastFrameTime = 0
    /\ now = 0
    /\ ticks = 0
    /\ polled = NoPoll
    /\ denied = FALSE
    /\ FreshFps /\ FreshCounts /\ FreshConn /\ FreshCalls /\ FreshRuns
    /\ _retryDelay = DefaultRetryDelay
    /\ wire = <<>>
    /\ udpCall = NoUdpCall
    /\ _password = DefaultPassword
    /\ udpOps = 0
    /\ _connected = TRUE
    /\ greeted = TRUE
    /\ _frameId \in {0, FrameIdMod - 1}

\* send(data, len) composes the packet of its turn `turn`
HeaderTurn(len, turn) ==
    /\ variant = "UDPNetworkClient"
    /\ _connected
    /\ udpOps < MaxUdpOps
    /\ udpOps' = udpOps + 1
    /\ wire' = <<Fragment(_frameId, turn, len)>>
    /\ udpCall' = UdpCall("send", len, len, FALSE)
    /\ UNCHANGED <<_connected, _frameId, _password, greeted>>
    /\ UdpQuiet

HeaderNext ==
    \E len \in HeaderLens : \E turn \in HeaderTurns(len) :
        HeaderTurn(len, turn)

SpecHeader == HeaderInit /\ [][HeaderNext]_vars

\* ceil(L / 1400)
CeilFragments(len) == (len + MAX_PAYLOAD_SIZE - 1) \div MAX_PAYLOAD_SIZE

\* C38 (as stated): in every header the 16-bit fragment count is
\* ceil(L / 1400) for the payload length L of the 32-bit size field, and the
\* fragment index is below it and is the number of the turn: no field is
\* truncated or wraps.
C38_HeaderFieldsFit ==
    \A i \in 1 .. Len(wire) :
        wire[i].kind = "fragment"
            => /\ wire[i].totalSize = udpCall.len
               /\ wire[i].totalFragments = CeilFragments(wire[i].totalSize)
               /\ wire[i].fragmentIndex < wire[i].totalFragments
               /\ wire[i].fragmentIndex * MAX_PAYLOAD_SIZE = wire[i].offset

----------------------------------------------------------------------------
(* The loops of the send operations: the partial-write loop of             *)
(* RelayClient::sendData and the fragment loop of UDPNetworkClient::send.  *)

\* frame lengths handed to sendData()
LoopLens == {0, 1, 3, 4}

\* what a turn of the write loop meets: the peer gone (-1), or a write()
\* that accepts 0, 1 or 3 bytes
LoopEvents == {-1, 0, 1, 3}

LoopScripts(len) == [1 .. len -> LoopEvents]

\* the failing turn of the fragment loop: as FailTurns, or the last turn of
\* the longest frame
LoopFailTurns == FailTurns \cup {29}

LoopInit ==
    \/ Init /\ variant = "RelayClient"
    \/ UdpInit

LoopNext ==
    \/ \E d \in ClockSteps : Tick(d)
    \/ \E ok \in BOOLEAN : RelayRun(ok)
    \/ \E length \in LoopLens : \E script \in LoopScripts(length) :
          RelaySendData(length, script)
    \/ \E resolved, hsOk \in BOOLEAN : UdpConnect(resolved, hsOk)
    \/ \E len \in UdpLens : \E failTurn \in LoopFailTurns :
          UdpSend(len, failTurn)

SpecLoop == LoopInit /\ [][LoopNext]_vars

\* C39: every send operation ends.  The write loop of the stream send makes
\* at most one write() per byte of the frame, each of them writing at least
\* one byte or, writing none, ending the call with failure; the fragment
\* loop of the datagram send runs at most ceil(L / 1400) times.
C39_SendsTerminate ==
    /\ (variant = "RelayClient" /\ lastCall # NoCall)
          => /\ lastCall.writes <= lastCall.len
             /\ lastCall.written <= lastCall.len
             /\ lastCall.written >= lastCall.writes - 1
             /\ lastCall.written < lastCall.writes => ~lastCall.ret
    /\ (variant = "UDPNetworkClient" /\ udpCall.op = "send")
          => Len(wire) + (IF udpCall.failed THEN 1 ELSE 0)
                <= CeilFragments(udpCall.len)

\* a frame of three bytes went out in three writes of one byte
C39_Witness ==
    /\ variant = "RelayClient"
    /\ lastCall # NoCall
    /\ lastCall.ret = TRUE
    /\ lastCall.len = 3
    /\ lastCall.writes = 3
    /\ lastCall.written = 3

=============================================================================
